---- MODULE Spec2Model ----
(***************************************************************************)
(* PlanItinerary: the itinerary store, the event operations, the budget    *)
(* calculation and the LLM suggestion request with its validators.         *)
(*                                                                         *)
(* Strings are sequences of one-character strings, so that toLowerCase,    *)
(* replace, trim and includes are computed character by character.         *)
(***************************************************************************)
EXTENDS Integers, Sequences, FiniteSets, TLC

VARIABLES itineraries, thrown, call, chk

vars == <<itineraries, thrown, call, chk>>

(***************************************************************************)
(* Bounds of the model.                                                    *)
(***************************************************************************)
MaxItins == 2
MaxEvents == 2

(***************************************************************************)
(* Characters and strings.                                                 *)
(***************************************************************************)
UpperCase == <<"A", "B", "C", "D", "E", "F", "G", "H", "I", "J", "K", "L", "M",
               "N", "O", "P", "Q", "R", "S", "T", "U", "V", "W", "X", "Y", "Z">>

LowerCase == <<"a", "b", "c", "d", "e", "f", "g", "h", "i", "j", "k", "l", "m",
               "n", "o", "p", "q", "r", "s", "t", "u", "v", "w", "x", "y", "z">>

Digits == {"0", "1", "2", "3", "4", "5", "6", "7", "8", "9"}

Whitespace == {" "}

Range(s) == {s[k] : k \in DOMAIN s}

SeqsUpTo(S, n) == UNION {[1..m -> S] : m \in 0..n}

(***************************************************************************)
(* Trip objects. A Trip is an object: two Trips with the same field values *)
(* are two objects. tripA and tripB carry identical fields.                *)
(***************************************************************************)
Trips == {"tripA", "tripB"}

Str_a == <<"a">>
Str_A == <<"A">>
Str_b == <<"b">>

\* The trip of the ambiguous-destination test: its destination names no place.
SpringBreakTrip == "springBreakTrip"

SpringBreak == <<"S", "p", "r", "i", "n", "g", " ", "B", "r", "e", "a", "k">>

TripFields(t) ==
    IF t = SpringBreakTrip
    THEN [destination |-> SpringBreak, startDate |-> "2025-03-10",
          endDate |-> "2025-03-17", groupSize |-> 1]
    ELSE [destination |-> Str_a, startDate |-> "2025-04-01",
          endDate |-> "2025-04-07", groupSize |-> 2]

\* Inputs of the operations. A create call passes one of CreateInputs, an
\* addEvent call one of EventInputs, an updateEvent call one of UpdateInputs:
\* every field takes two values, the cost is negative or positive, and the
\* start is before or after the end.
CreateInputs ==
    {[trip |-> "tripA", budget |-> 1], [trip |-> "tripB", budget |-> 3]}

EventInputs ==
    {[name |-> Str_a, cost |-> -1, location |-> Str_a,
      start |-> "2025-04-01", end |-> "2025-04-02"],
     [name |-> Str_A, cost |-> 2, location |-> Str_b,
      start |-> "2025-04-02", end |-> "2025-04-01"]}

UpdateInputs ==
    {[name |-> x.name, cost |-> x.cost, start |-> x.start, end |-> x.end] :
        x \in EventInputs}

\* call is the requestSuggestionFromLLM call: idle, awaiting the gateway, or
\* returned with its result and the error its catch block logged.
NoCall == [pc |-> "idle", it |-> 0, destination |-> <<>>, remainingBudget |-> 0,
           result |-> <<>>, logged |-> ""]

NoChk == [op |-> "none", done |-> FALSE]

\* thrown is the message of the Error the last call threw, NoError when it
\* returned.
NoError == ""

\* throw new Error("An itinerary for this trip already exists.")
DuplicateTripError == "An itinerary for this trip already exists."

TotalEvents == LET RECURSIVE Sum(_)
                   Sum(k) == IF k = 0 THEN 0
                             ELSE Len(itineraries[k].events) + Sum(k - 1)
               IN Sum(Len(itineraries))

(***************************************************************************)
(* The store after construction: no itinerary.                             *)
(***************************************************************************)
Init ==
    /\ itineraries = <<>>
    /\ thrown = NoError
    /\ call = NoCall
    /\ chk = NoChk

\* Mutant: Trips compared by their field values.
SameTrip_byFields(a, b) == TripFields(a) = TripFields(b)

\* i.trip === trip: object identity.
SameTrip(a, b) == a = b

\* Mutant: the lookup finds nothing.
FindExisting_none(trip) == {}

\* this.itineraries.find((i) => i.trip === trip)
FindExisting(trip) ==
    {i \in 1..Len(itineraries) : SameTrip(itineraries[i].trip, trip)}

NewItinerary(trip, budget) ==
    [trip |-> trip, events |-> <<>>, finalized |-> FALSE, budget |-> budget]

Create(trip, budget) ==
    /\ IF FindExisting(trip) # {}
       THEN /\ itineraries' = itineraries
            /\ thrown' = DuplicateTripError
       ELSE /\ Len(itineraries) < MaxItins
            /\ itineraries' = Append(itineraries, NewItinerary(trip, budget))
            /\ thrown' = NoError
    /\ UNCHANGED <<call, chk>>

\* Mutant: a new event is created already decided.
NewEvent_decided(name, cost, location, start, end) ==
    [name |-> name, cost |-> cost, location |-> location, start |-> start,
     end |-> end, pending |-> FALSE, approved |-> FALSE]

NewEvent(name, cost, location, start, end) ==
    [name |-> name, cost |-> cost, location |-> location, start |-> start,
     end |-> end, pending |-> TRUE, approved |-> FALSE]

AddEvent(name, cost, location, it, start, end) ==
    /\ it \in 1..Len(itineraries)
    /\ TotalEvents < MaxEvents
    /\ itineraries' = [itineraries EXCEPT ![it].events =
                          Append(@, NewEvent(name, cost, location, start, end))]
    /\ thrown' = NoError
    /\ UNCHANGED <<call, chk>>

\* Mutant: an edited event goes back to pending.
UpdatedEvent_resetPending(event, name, cost, start, end) ==
    [event EXCEPT !.name = name, !.cost = cost, !.start = start, !.end = end,
                  !.pending = TRUE, !.approved = FALSE]

UpdatedEvent(event, name, cost, start, end) ==
    [event EXCEPT !.name = name, !.cost = cost, !.start = start, !.end = end]

UpdateEvent(it, ev, name, cost, start, end) ==
    /\ it \in 1..Len(itineraries)
    /\ ev \in 1..Len(itineraries[it].events)
    /\ itineraries' = [itineraries EXCEPT ![it].events[ev] =
                          UpdatedEvent(@, name, cost, start, end)]
    /\ thrown' = NoError
    /\ UNCHANGED <<call, chk>>

\* Mutant: every call flips pending.
ApprovalSet_flipPending(event, approved) ==
    [event EXCEPT !.approved = approved, !.pending = ~@]

\* Mutant: the approval is set and pending is left as it was.
ApprovalSet_keepPending(event, approved) == [event EXCEPT !.approved = approved]

ApprovalSet(event, approved) ==
    [event EXCEPT !.approved = approved, !.pending = FALSE]

SetEventApproval(it, ev, approved) ==
    /\ it \in 1..Len(itineraries)
    /\ ev \in 1..Len(itineraries[it].events)
    /\ itineraries' = [itineraries EXCEPT ![it].events[ev] = ApprovalSet(@, approved)]
    /\ thrown' = NoError
    /\ UNCHANGED <<call, chk>>

\* Mutant: finalizing closes the pending events as rejected.
FinalizeItinerary_decideAll(it, finalized) ==
    /\ it \in 1..Len(itineraries)
    /\ itineraries' =
           [itineraries EXCEPT
               ![it].finalized = finalized,
               ![it].events = [k \in 1..Len(@) |-> [@[k] EXCEPT !.pending = FALSE]]]
    /\ thrown' = NoError
    /\ UNCHANGED <<call, chk>>

FinalizeItinerary(it, finalized) ==
    /\ it \in 1..Len(itineraries)
    /\ itineraries' = [itineraries EXCEPT ![it].finalized = finalized]
    /\ thrown' = NoError
    /\ UNCHANGED <<call, chk>>

\* Mutant: every decided event is counted, approved or rejected.
ApprovedOf_decided(events) == SelectSeq(events, LAMBDA e : ~e.pending)

\* events.filter((e) => e.approved)
ApprovedOf(events) == SelectSeq(events, LAMBDA e : e.approved)

\* .reduce((sum, e) => sum + e.cost, 0)
RECURSIVE ReduceCost(_, _)
ReduceCost(events, sum) ==
    IF events = <<>> THEN sum
    ELSE ReduceCost(Tail(events), sum + Head(events).cost)

getRemainingBudget(itinerary) ==
    itinerary.budget - ReduceCost(ApprovedOf(itinerary.events), 0)

DoCreate == \E x \in CreateInputs : Create(x.trip, x.budget)

DoAddEvent ==
    \E it \in 1..MaxItins, x \in EventInputs :
        AddEvent(x.name, x.cost, x.location, it, x.start, x.end)

DoUpdateEvent ==
    \E it \in 1..MaxItins, ev \in 1..MaxEvents, x \in UpdateInputs :
        UpdateEvent(it, ev, x.name, x.cost, x.start, x.end)

DoSetEventApproval ==
    \E it \in 1..MaxItins, ev \in 1..MaxEvents, a \in BOOLEAN :
        SetEventApproval(it, ev, a)

DoFinalizeItinerary ==
    \E it \in 1..MaxItins, f \in BOOLEAN : FinalizeItinerary(it, f)

Next ==
    \/ DoCreate
    \/ DoAddEvent
    \/ DoUpdateEvent
    \/ DoSetEventApproval
    \/ DoFinalizeItinerary

Spec == Init /\ [][Next]_vars

(***************************************************************************)
(* Strings: String.prototype.toLowerCase, replace(/[^a-z0-9\s]/g, ""),     *)
(* trim and includes, character by character.                              *)
(***************************************************************************)
LowerChar(c) ==
    IF \E k \in 1..Len(UpperCase) : UpperCase[k] = c
    THEN LowerCase[CHOOSE k \in 1..Len(UpperCase) : UpperCase[k] = c]
    ELSE c

ToLowerCase(text) == [k \in 1..Len(text) |-> LowerChar(text[k])]

\* Mutant: whitespace is removed with the punctuation.
Kept_alnum(c) == c \in Range(LowerCase) \cup Digits

\* [a-z0-9\s]: the characters replace() keeps.
Kept(c) == c \in Range(LowerCase) \cup Digits \cup Whitespace

StripOthers(text) == SelectSeq(text, Kept)

RECURSIVE TrimStart(_)
TrimStart(text) ==
    IF text # <<>> /\ Head(text) \in Whitespace THEN TrimStart(Tail(text))
    ELSE text

RECURSIVE TrimEnd(_)
TrimEnd(text) ==
    IF text # <<>> /\ text[Len(text)] \in Whitespace
    THEN TrimEnd(SubSeq(text, 1, Len(text) - 1))
    ELSE text

Trim(text) == TrimEnd(TrimStart(text))

\* const normalize = (text) => text.toLowerCase().replace(...).trim()
normalize(text) == Trim(StripOthers(ToLowerCase(text)))

\* text.includes(part)
Includes(text, part) ==
    \E k \in 0..(Len(text) - Len(part)) : SubSeq(text, k + 1, k + Len(part)) = part

(***************************************************************************)
(* Values parsed from the gateway's reply. A property of an object is a    *)
(* sequence of at most one value: <<>> when the object does not have it.   *)
(* kind is "object" or "null"; null has no properties, and reading one     *)
(* throws a TypeError.                                                     *)
(***************************************************************************)
Has(prop) == prop # <<>>
Get(prop) == prop[1]

Obj(name, cost, location) ==
    [kind |-> "object", name |-> name, cost |-> cost, category |-> <<"Dining">>,
     location |-> location, durationHours |-> <<1>>]

Null ==
    [kind |-> "null", name |-> <<>>, cost |-> <<>>, category |-> <<>>,
     location |-> <<>>, durationHours |-> <<>>]

\* The outcome of evaluating a function: a returned value, or a thrown error.
\* error is the message the catch block logs.
Returned(v) == [thrown |-> FALSE, value |-> v, error |-> ""]
Threw(error) == [thrown |-> TRUE, value |-> <<>>, error |-> error]

\* Reading a property of null or undefined, or calling what is not a function.
TypeError == "TypeError"

\* suggestion.location || "": the empty string is falsy.
LocationOrEmpty(suggestion) ==
    IF Has(suggestion.location) THEN Get(suggestion.location) ELSE <<>>

\* events.map((e) => normalize(e.location || "")).filter((loc) => loc.length > 0)
ItineraryLocations(events) ==
    SelectSeq([k \in 1..Len(events) |-> normalize(events[k].location)],
              LAMBDA loc : Len(loc) > 0)

validateDestination(suggestion, destination, events) ==
    IF suggestion.kind = "null" THEN Threw(TypeError)
    ELSE IF LocationOrEmpty(suggestion) = <<>> THEN Returned(FALSE)
    ELSE LET normalizedDest == normalize(destination)
             suggestionText == normalize(LocationOrEmpty(suggestion))
             matchesDestination == Includes(suggestionText, normalizedDest)
             itineraryLocations == ItineraryLocations(events)
             matchesExistingLocation ==
                 \E k \in 1..Len(itineraryLocations) :
                     Includes(suggestionText, itineraryLocations[k])
         IN Returned(matchesDestination \/ matchesExistingLocation)

\* suggestion.cost || 0: undefined and 0 both give 0.
CostOrZero(suggestion) ==
    IF Has(suggestion.cost) THEN Get(suggestion.cost) ELSE 0

\* Mutant: a cost equal to the budget is rejected.
validateBudget_strict(suggestion, budget) ==
    IF suggestion.kind = "null" THEN Threw(TypeError)
    ELSE Returned(CostOrZero(suggestion) < budget)

validateBudget(suggestion, budget) ==
    IF suggestion.kind = "null" THEN Threw(TypeError)
    ELSE Returned(CostOrZero(suggestion) <= budget)

\* Mutant: the names are compared after normalize().
isDuplicate_normalized(events, suggestion) ==
    IF events = <<>> THEN Returned(FALSE)
    ELSE IF suggestion.kind = "null" \/ ~Has(suggestion.name) THEN Threw(TypeError)
    ELSE Returned(\E k \in 1..Len(events) :
                      normalize(events[k].name) = normalize(Get(suggestion.name)))

\* Mutant: rejected events take no part in the comparison.
isDuplicate_skipRejected(events, suggestion) ==
    IF events = <<>> THEN Returned(FALSE)
    ELSE IF suggestion.kind = "null" \/ ~Has(suggestion.name) THEN Threw(TypeError)
    ELSE Returned(\E k \in 1..Len(events) :
                      /\ events[k].pending \/ events[k].approved
                      /\ ToLowerCase(events[k].name) =
                             ToLowerCase(Get(suggestion.name)))

\* events.some((e) => e.name.toLowerCase() === suggestion.name.toLowerCase()):
\* with no event the callback never runs; with one, it reads suggestion.name.
isDuplicate(events, suggestion) ==
    IF events = <<>> THEN Returned(FALSE)
    ELSE IF suggestion.kind = "null" \/ ~Has(suggestion.name) THEN Threw(TypeError)
    ELSE Returned(\E k \in 1..Len(events) :
                      ToLowerCase(events[k].name) =
                          ToLowerCase(Get(suggestion.name)))

\* The issues collected for one suggestion, when no check throws.
Issues(d, b, dup) ==
    (IF ~d.value THEN <<"Destination mismatch">> ELSE <<>>) \o
    (IF ~b.value THEN <<"Exceeds remaining budget">> ELSE <<>>) \o
    (IF dup.value THEN <<"Duplicate of existing event">> ELSE <<>>)

\* for (const suggestion of suggestions) { ... }
RECURSIVE ValidateLoop(_, _, _, _, _, _)
ValidateLoop(suggestions, k, validSuggestions, events, destination, budget) ==
    IF k > Len(suggestions) THEN Returned(validSuggestions)
    ELSE LET suggestion == suggestions[k]
             d == validateDestination(suggestion, destination, events)
         IN IF d.thrown THEN d
            ELSE LET b == validateBudget(suggestion, budget)
                 IN IF b.thrown THEN b
                    ELSE LET dup == isDuplicate(events, suggestion)
                         IN IF dup.thrown THEN dup
                            ELSE ValidateLoop(
                                     suggestions, k + 1,
                                     IF Len(Issues(d, b, dup)) > 0
                                     THEN validSuggestions
                                     ELSE Append(validSuggestions, suggestion),
                                     events, destination, budget)

validateAllSuggestions(suggestions, events, destination, budget) ==
    ValidateLoop(suggestions, 1, <<>>, events, destination, budget)

\* Mutant: the error is thrown again.
CatchBlock_rethrow(outcome) == outcome

\* } catch (error) { console.error(...); return []; }
CatchBlock(outcome) ==
    IF outcome.thrown THEN [Returned(<<>>) EXCEPT !.error = outcome.error]
    ELSE outcome

(***************************************************************************)
(* The gateway's reply. The gateway call rejects, resolves to a value that *)
(* is not a string, or resolves to a text. A text is a sequence of tokens: *)
(* "[", "]", ",", a JSON value without brackets (an object or null), or    *)
(* prose, which is not JSON.                                               *)
(***************************************************************************)
Tok(t) == [t |-> t, v |-> Null]
Val(v) == [t |-> "value", v |-> v]

\* text.match(/\[[\s\S]*\]/): from the first "[" to the last "]" after it.
Brackets(text, t) == {k \in 1..Len(text) : text[k].t = t}
Min(S) == CHOOSE k \in S : \A j \in S : k <= j
Max(S) == CHOOSE k \in S : \A j \in S : j <= k

HasMatch(text) ==
    /\ Brackets(text, "[") # {}
    /\ Brackets(text, "]") # {}
    /\ Min(Brackets(text, "[")) < Max(Brackets(text, "]"))

JsonMatch(text) ==
    SubSeq(text, Min(Brackets(text, "[")), Max(Brackets(text, "]")))

\* JSON.parse on the matched tokens. A nested array is a value with no
\* properties.
ArrayValue == [Null EXCEPT !.kind = "array"]
ParseFail == [ok |-> FALSE, isArray |-> FALSE, value |-> Null, elems |-> <<>>,
              next |-> 0]
ParsedValue(v, next) ==
    [ok |-> TRUE, isArray |-> FALSE, value |-> v, elems |-> <<>>, next |-> next]
ParsedArray(elems, next) ==
    [ok |-> TRUE, isArray |-> TRUE, value |-> ArrayValue, elems |-> elems,
     next |-> next]

RECURSIVE ParseValue(_, _)
RECURSIVE ParseElements(_, _, _)

ParseValue(toks, p) ==
    IF p > Len(toks) THEN ParseFail
    ELSE IF toks[p].t = "value" THEN ParsedValue(toks[p].v, p + 1)
    ELSE IF toks[p].t = "["
         THEN IF p + 1 <= Len(toks) /\ toks[p + 1].t = "]"
              THEN ParsedArray(<<>>, p + 2)
              ELSE ParseElements(toks, p + 1, <<>>)
    ELSE ParseFail

ParseElements(toks, p, elems) ==
    LET v == ParseValue(toks, p)
    IN IF ~v.ok \/ v.next > Len(toks) THEN ParseFail
       ELSE IF toks[v.next].t = "]"
            THEN ParsedArray(Append(elems, v.value), v.next + 1)
       ELSE IF toks[v.next].t = ","
            THEN ParseElements(toks, v.next + 1, Append(elems, v.value))
       ELSE ParseFail

JsonParse(toks) ==
    LET r == ParseValue(toks, 1)
    IN IF r.ok /\ r.next = Len(toks) + 1 THEN r ELSE ParseFail

\* The errors of the try block.
GatewayError == "gateway error"
NoJsonArray == "JSON.stringify(text)"
SyntaxError == "SyntaxError"
InvalidFormat == "Invalid suggestions format."

\* The body of the try block, from the resolution of llm.executeLLM(prompt).
TryBlock(reply, events, destination, remainingBudget) ==
    IF reply.kind = "rejected" THEN Threw(GatewayError)
    ELSE IF reply.kind # "text" THEN Threw(TypeError)
    ELSE IF ~HasMatch(reply.text) THEN Threw(NoJsonArray)
    ELSE LET parsed == JsonParse(JsonMatch(reply.text))
         IN IF ~parsed.ok THEN Threw(SyntaxError)
            ELSE IF ~parsed.isArray THEN Threw(InvalidFormat)
            ELSE validateAllSuggestions(parsed.elems, events, destination,
                                        remainingBudget)

(***************************************************************************)
(* requestSuggestionFromLLM. The call runs to the await of the gateway     *)
(* call, with the destination and the remaining budget read; the other     *)
(* operations may run before the gateway settles. The prompt is built from *)
(* values the model keeps in call; the gateway answers anything.           *)
(***************************************************************************)
RequestSuggestionFromLLM(it) ==
    /\ it \in 1..Len(itineraries)
    /\ call.pc # "awaiting"
    /\ call' = [pc |-> "awaiting", it |-> it,
                destination |-> TripFields(itineraries[it].trip).destination,
                remainingBudget |-> getRemainingBudget(itineraries[it]),
                result |-> <<>>, logged |-> ""]
    /\ UNCHANGED <<itineraries, thrown, chk>>

\* Mutant: the budget check uses the remaining budget at the time of the reply.
GatewaySettles_currentBudget(reply) ==
    /\ call.pc = "awaiting"
    /\ LET outcome == CatchBlock(TryBlock(reply, itineraries[call.it].events,
                                          call.destination,
                                          getRemainingBudget(itineraries[call.it])))
       IN /\ call' = [call EXCEPT !.pc = "returned", !.result = outcome.value,
                                   !.logged = outcome.error]
          /\ thrown' = IF outcome.thrown THEN outcome.error ELSE NoError
    /\ UNCHANGED <<itineraries, chk>>

\* Mutant: a failure of the gateway or of the parsing aborts the call, which
\* never returns.
GatewaySettles_abortsOnFailure(reply) ==
    /\ call.pc = "awaiting"
    /\ LET outcome == TryBlock(reply, itineraries[call.it].events,
                               call.destination, call.remainingBudget)
       IN /\ call' = [call EXCEPT
                         !.pc = IF outcome.thrown THEN "aborted" ELSE "returned",
                         !.result = outcome.value,
                         !.logged = outcome.error]
          /\ thrown' = IF outcome.thrown THEN outcome.error ELSE NoError
    /\ UNCHANGED <<itineraries, chk>>

\* Mutant: every accepted suggestion is added to the itinerary as an event.
GatewaySettles_addsEvents(reply) ==
    /\ call.pc = "awaiting"
    /\ LET outcome == CatchBlock(TryBlock(reply, itineraries[call.it].events,
                                          call.destination, call.remainingBudget))
       IN /\ call' = [call EXCEPT !.pc = "returned", !.result = outcome.value,
                                   !.logged = outcome.error]
          /\ thrown' = IF outcome.thrown THEN outcome.error ELSE NoError
          /\ itineraries' =
                 [itineraries EXCEPT ![call.it].events =
                     @ \o [k \in 1..Len(outcome.value) |->
                               NewEvent(Get(outcome.value[k].name),
                                        Get(outcome.value[k].cost),
                                        Get(outcome.value[k].location),
                                        "2025-04-01", "2025-04-02")]]
    /\ UNCHANGED chk

GatewaySettles(reply) ==
    /\ call.pc = "awaiting"
    /\ LET outcome == CatchBlock(TryBlock(reply, itineraries[call.it].events,
                                          call.destination, call.remainingBudget))
       IN /\ call' = [call EXCEPT !.pc = "returned", !.result = outcome.value,
                                   !.logged = outcome.error]
          /\ thrown' = IF outcome.thrown THEN outcome.error ELSE NoError
    /\ UNCHANGED <<itineraries, chk>>

MaxReplyLen == 3

\* A suggestion located at the destination of the trip, named like an event.
LocalSuggestion == Obj(<<Str_a>>, <<1>>, <<Str_a>>)

ReplyTokens ==
    {Tok("["), Tok("]"), Tok(","), Tok("prose"), Val(LocalSuggestion), Val(Null)}

Replies ==
    {[kind |-> "rejected", text |-> <<>>], [kind |-> "notString", text |-> <<>>]}
    \cup [kind : {"text"}, text : SeqsUpTo(ReplyTokens, MaxReplyLen)]

LLMCreateInputs == {[trip |-> "tripA", budget |-> 1]}

LLMCreate == \E x \in LLMCreateInputs : Create(x.trip, x.budget)

DoRequestSuggestion == \E it \in 1..MaxItins : RequestSuggestionFromLLM(it)

DoGatewaySettles == \E reply \in Replies : GatewaySettles(reply)

NextLLM ==
    \/ LLMCreate
    \/ DoAddEvent
    \/ DoSetEventApproval
    \/ DoRequestSuggestion
    \/ DoGatewaySettles

SpecLLM == Init /\ [][NextLLM]_vars

(***************************************************************************)
(* SpecValidate: validateAllSuggestions applied to bounded inputs. chk     *)
(* holds the arguments and, once the function has run, its outcome.        *)
(***************************************************************************)
MaxSuggestions == 2

OptNames == {<<>>, <<Str_a>>, <<Str_b>>}
OptCosts == {<<>>, <<1>>, <<3>>}
OptLocations == {<<>>, <<Str_a>>, <<Str_b>>}

SuggestionValues ==
    {Obj(n, c, l) : n \in OptNames, c \in OptCosts, l \in OptLocations} \cup {Null}

\* A pending event named "a" located at "a", and an approved event named "A"
\* located at "b".
PendingEvent == NewEvent(Str_a, -1, Str_a, "2025-04-01", "2025-04-02")
ApprovedEvent ==
    ApprovalSet(NewEvent(Str_A, 2, Str_b, "2025-04-02", "2025-04-01"), TRUE)

EventLists ==
    {<<>>, <<PendingEvent>>, <<ApprovedEvent>>, <<PendingEvent, ApprovedEvent>>}

Destinations == {Str_a, Str_b}
RemainingBudgets == {-1, 0, 2}

ValidateInputs ==
    [op : {"validateAllSuggestions"},
     suggestions : SeqsUpTo(SuggestionValues, MaxSuggestions),
     events : EventLists,
     destination : Destinations,
     budget : RemainingBudgets,
     done : {FALSE},
     out : {Returned(<<>>)}]

InitValidate ==
    /\ itineraries = <<>>
    /\ thrown = NoError
    /\ call = NoCall
    /\ chk \in ValidateInputs

RunValidate ==
    /\ chk.op = "validateAllSuggestions"
    /\ ~chk.done
    /\ chk' = [chk EXCEPT !.done = TRUE,
                          !.out = validateAllSuggestions(chk.suggestions, chk.events,
                                                         chk.destination, chk.budget)]
    /\ UNCHANGED <<itineraries, thrown, call>>

NextValidate == RunValidate

SpecValidate == InitValidate /\ [][NextValidate]_vars

(***************************************************************************)
(* SpecDestination: validateDestination applied to bounded inputs: every   *)
(* text of at most MaxTextLen characters over a lower-case letter, an      *)
(* upper-case letter, a space and a comma, and the examples of the         *)
(* documentation.                                                          *)
(***************************************************************************)
MaxTextLen == 3

TextAlphabet == {"a", "A", " ", ","}
Texts == SeqsUpTo(TextAlphabet, MaxTextLen)

RomeItaly == <<"R", "o", "m", "e", ",", " ", "I", "t", "a", "l", "y">>
TrastevereRomeItaly ==
    <<"T", "r", "a", "s", "t", "e", "v", "e", "r", "e", ",", " ">> \o RomeItaly
ParisFrance == <<"P", "a", "r", "i", "s", ",", " ", "F", "r", "a", "n", "c", "e">>

EventAtLocation(location) == [PendingEvent EXCEPT !.location = location]

\* No event, or one event whose location is empty, punctuation only, or a text.
EventLocationLists ==
    {<<>>} \cup {<<EventAtLocation(l)>> : l \in {<<>>, <<",", " ">>, <<"A">>}}

DestinationInputs ==
    [op : {"validateDestination"},
     suggestion : {Obj(<<Str_b>>, <<1>>, l) :
                      l \in {<<>>} \cup {<<t>> : t \in Texts}},
     destination : Texts,
     events : EventLocationLists,
     done : {FALSE},
     out : {Returned(FALSE)}]

ExampleInputs ==
    [op : {"validateDestination"},
     suggestion : {Obj(<<Str_b>>, <<1>>, <<l>>) :
                      l \in {TrastevereRomeItaly, ParisFrance}},
     destination : {RomeItaly},
     events : {<<>>, <<EventAtLocation(RomeItaly)>>},
     done : {FALSE},
     out : {Returned(FALSE)}]

InitDestination ==
    /\ itineraries = <<>>
    /\ thrown = NoError
    /\ call = NoCall
    /\ chk \in DestinationInputs \cup ExampleInputs

RunDestination ==
    /\ chk.op = "validateDestination"
    /\ ~chk.done
    /\ chk' = [chk EXCEPT !.done = TRUE,
                          !.out = validateDestination(chk.suggestion, chk.destination,
                                                      chk.events)]
    /\ UNCHANGED <<itineraries, thrown, call>>

NextDestination == RunDestination

SpecDestination == InitDestination /\ [][NextDestination]_vars

(***************************************************************************)
(* Claims about the store and the event operations, checked under Spec.    *)
(***************************************************************************)
ItinIds == 1..MaxItins
EventIds == 1..MaxEvents
Registered(trip) == \E i \in 1..Len(itineraries) : itineraries[i].trip = trip

AllEvents ==
    {<<i, j>> \in ItinIds \X EventIds :
        i <= Len(itineraries) /\ j <= Len(itineraries[i].events)}

EventAt(p) == itineraries[p[1]].events[p[2]]

\* C1: create(trip, budget) throws the duplicate-trip error exactly when the
\* store already holds an itinerary for that Trip object, and then leaves the
\* store unchanged; otherwise, also when a registered Trip has the same field
\* values, it succeeds and registers an itinerary with no events.
C1_CreateDuplicateFails ==
    [][\A x \in CreateInputs :
          Create(x.trip, x.budget) =>
              IF Registered(x.trip)
              THEN /\ thrown' = DuplicateTripError
                   /\ itineraries' = itineraries
              ELSE /\ thrown' = NoError
                   /\ itineraries' =
                          Append(itineraries,
                                 [trip |-> x.trip, events |-> <<>>,
                                  finalized |-> FALSE, budget |-> x.budget])]_vars

\* Two itineraries for distinct Trips with identical fields are registered, and
\* a further create for one of them has just failed.
C1_Witness ==
    /\ thrown = DuplicateTripError
    /\ \E i, j \in 1..Len(itineraries) :
          /\ itineraries[i].trip # itineraries[j].trip
          /\ TripFields(itineraries[i].trip) = TripFields(itineraries[j].trip)

\* C2: no two registered itineraries refer to the same Trip object.
C2_OneItineraryPerTrip ==
    \A i, j \in 1..Len(itineraries) :
        i # j => itineraries[i].trip # itineraries[j].trip

\* Two itineraries are registered, a duplicate create was refused, and events
\* were added and decided.
C2_Witness ==
    /\ Len(itineraries) = 2
    /\ \E p \in AllEvents : ~EventAt(p).pending
    /\ thrown = DuplicateTripError

\* C3: after setEventApproval(e, v) the event has approved = v and
\* pending = false, whatever its flags were before.
C3_SetEventApprovalPost ==
    [][\A it \in ItinIds, ev \in EventIds, v \in BOOLEAN :
          SetEventApproval(it, ev, v) =>
              /\ itineraries'[it].events[ev].approved = v
              /\ itineraries'[it].events[ev].pending = FALSE]_vars

\* One event was decided and approved, another was decided and rejected.
C3_Witness ==
    /\ \E p \in AllEvents : ~EventAt(p).approved /\ ~EventAt(p).pending
    /\ \E p \in AllEvents : EventAt(p).approved /\ ~EventAt(p).pending

\* C4: no event is pending and approved at the same time.
C4_NotPendingAndApproved ==
    \A p \in AllEvents : ~(EventAt(p).pending /\ EventAt(p).approved)

\* One event is approved while another one is still pending.
C4_Witness ==
    \E p, q \in AllEvents :
        /\ EventAt(p).approved
        /\ ~EventAt(p).pending
        /\ EventAt(q).pending

\* C5: addEvent succeeds in every state, whatever the cost, the order of start
\* and end and the finalized flag, and appends exactly one pending, unapproved
\* event at the end of the itinerary's events, leaving the others as they were.
C5_AddEventAppends ==
    /\ [](\A it \in 1..Len(itineraries), x \in EventInputs :
             TotalEvents < MaxEvents =>
                 ENABLED AddEvent(x.name, x.cost, x.location, it, x.start, x.end))
    /\ [][\A it \in ItinIds, x \in EventInputs :
             AddEvent(x.name, x.cost, x.location, it, x.start, x.end) =>
                 /\ thrown' = NoError
                 /\ itineraries'[it].events =
                        itineraries[it].events \o
                            <<[name |-> x.name, cost |-> x.cost,
                               location |-> x.location, start |-> x.start,
                               end |-> x.end, pending |-> TRUE,
                               approved |-> FALSE]>>]_vars

\* A finalized itinerary holds a decided event followed by a pending event whose
\* cost is negative.
C5_Witness ==
    /\ thrown = NoError
    /\ \E i \in 1..Len(itineraries) :
          /\ itineraries[i].finalized
          /\ Len(itineraries[i].events) = 2
          /\ ~itineraries[i].events[1].pending
          /\ itineraries[i].events[2].pending
          /\ itineraries[i].events[2].cost < 0

\* The sum of the costs of the approved events, over the set of their positions.
RECURSIVE SumCostAt(_, _)
SumCostAt(events, S) ==
    IF S = {} THEN 0
    ELSE LET k == CHOOSE k \in S : TRUE
         IN events[k].cost + SumCostAt(events, S \ {k})

ApprovedSpend(itinerary) ==
    SumCostAt(itinerary.events,
              {k \in 1..Len(itinerary.events) : itinerary.events[k].approved})

BudgetFormula ==
    \A it \in 1..Len(itineraries) :
        getRemainingBudget(itineraries[it])' =
            itineraries'[it].budget - ApprovedSpend(itineraries[it])'

AddEventKeepsBudget ==
    \A it \in ItinIds, x \in EventInputs :
        AddEvent(x.name, x.cost, x.location, it, x.start, x.end) =>
            getRemainingBudget(itineraries[it])' = getRemainingBudget(itineraries[it])

\* C6 as stated: getRemainingBudget is the budget minus the costs of the approved
\* events, and addEvent and every rejection leave it unchanged.
C6_Original ==
    [][/\ BudgetFormula
       /\ AddEventKeepsBudget
       /\ \A it \in ItinIds, ev \in EventIds :
             SetEventApproval(it, ev, FALSE) =>
                 getRemainingBudget(itineraries[it])' =
                     getRemainingBudget(itineraries[it])]_vars

\* C6, amended: getRemainingBudget is the budget minus the costs of the approved
\* events; addEvent, and rejecting an event that is not approved, leave it
\* unchanged, and rejecting an approved event gives its cost back.
C6_RemainingBudget ==
    [][/\ BudgetFormula
       /\ AddEventKeepsBudget
       /\ \A it \in ItinIds, ev \in EventIds :
             SetEventApproval(it, ev, FALSE) =>
                 getRemainingBudget(itineraries[it])' =
                     getRemainingBudget(itineraries[it]) +
                         (IF itineraries[it].events[ev].approved
                          THEN itineraries[it].events[ev].cost ELSE 0)]_vars

\* The approved spend exceeds the budget, the remaining budget is negative, and
\* a rejected event with a positive cost is left out of it.
C6_Witness ==
    \E it \in 1..Len(itineraries) :
        /\ getRemainingBudget(itineraries[it]) < 0
        /\ \E k \in 1..Len(itineraries[it].events) :
              itineraries[it].events[k].approved
        /\ \E p \in AllEvents :
              ~EventAt(p).approved /\ ~EventAt(p).pending /\ EventAt(p).cost > 0

(***************************************************************************)
(* The three checks as the specification states them, total on every       *)
(* parsed value: a value without a location fails the destination check, a *)
(* value without a cost costs 0, a value without a name duplicates nothing. *)
(***************************************************************************)
\* The characters of text that normalisation keeps, lowercased, from the first
\* to the last one that is not whitespace.
NormalForm(text) ==
    LET lower(k) == LowerChar(text[k])
        keep == {k \in 1..Len(text) :
                    lower(k) \in Range(LowerCase) \cup Digits \cup Whitespace}
        solid == {k \in keep : lower(k) \notin Whitespace}
        inside == {k \in keep : \E a, b \in solid : a <= k /\ k <= b}
        nth(i) == CHOOSE k \in inside :
                      Cardinality({j \in inside : j <= k}) = i
    IN [i \in 1..Cardinality(inside) |-> lower(nth(i))]

IsInfix(part, text) ==
    \E pre, post \in 0..Len(text) :
        /\ pre + Len(part) + post = Len(text)
        /\ \A k \in 1..Len(part) : text[pre + k] = part[k]

DestinationOk(suggestion, destination, events) ==
    /\ Has(suggestion.location)
    /\ Get(suggestion.location) # <<>>
    /\ \/ IsInfix(NormalForm(destination), NormalForm(Get(suggestion.location)))
       \/ \E k \in 1..Len(events) :
             /\ NormalForm(events[k].location) # <<>>
             /\ IsInfix(NormalForm(events[k].location),
                        NormalForm(Get(suggestion.location)))

BudgetOk(suggestion, budget) ==
    (IF Has(suggestion.cost) THEN Get(suggestion.cost) ELSE 0) <= budget

DuplicateOf(suggestion, events) ==
    /\ Has(suggestion.name)
    /\ \E k \in 1..Len(events) :
          ToLowerCase(events[k].name) = ToLowerCase(Get(suggestion.name))

PassesAll(suggestion, destination, events, budget) ==
    /\ DestinationOk(suggestion, destination, events)
    /\ BudgetOk(suggestion, budget)
    /\ ~DuplicateOf(suggestion, events)

WellFormed(suggestion) ==
    /\ suggestion.kind = "object"
    /\ Has(suggestion.name)
    /\ Has(suggestion.location)

Validated == chk.op = "validateAllSuggestions" /\ chk.done

\* C8: a malformed element of the parsed array is only rejected itself: every
\* well-formed element that passes the three checks is among the suggestions
\* the request returns.
C8_MalformedOnlyRejected ==
    Validated =>
        \A k \in 1..Len(chk.suggestions) :
            (/\ WellFormed(chk.suggestions[k])
             /\ PassesAll(chk.suggestions[k], chk.destination, chk.events,
                          chk.budget))
            => \E j \in 1..Len(CatchBlock(chk.out).value) :
                   CatchBlock(chk.out).value[j] = chk.suggestions[k]

\* C9: the validator returns exactly the subsequence of its input made of the
\* candidates that pass all three checks, in their original order.
C9_ReturnsPassingSubsequence ==
    Validated =>
        /\ ~chk.out.thrown
        /\ chk.out.value =
               SelectSeq(chk.suggestions,
                         LAMBDA x : PassesAll(x, chk.destination, chk.events,
                                              chk.budget))

DestinationChecked == chk.op = "validateDestination" /\ chk.done

ExamplesDecided ==
    /\ (/\ chk.destination = RomeItaly
        /\ chk.suggestion.location = <<TrastevereRomeItaly>>)
       => chk.out.value
    /\ (/\ chk.destination = RomeItaly
        /\ chk.suggestion.location = <<ParisFrance>>
        /\ chk.events = <<>>)
       => ~chk.out.value

\* C10 as stated: the destination check accepts a suggestion that has a location
\* exactly when the normalized location contains the normalized destination or
\* the normalized location of any event.
C10_Original ==
    (DestinationChecked /\ Has(chk.suggestion.location)) =>
        /\ ~chk.out.thrown
        /\ chk.out.value =
               LET location == NormalForm(Get(chk.suggestion.location))
               IN \/ IsInfix(NormalForm(chk.destination), location)
                  \/ \E k \in 1..Len(chk.events) :
                        IsInfix(NormalForm(chk.events[k].location), location)
        /\ ExamplesDecided

\* C10, amended: the destination check accepts exactly when the suggestion has a
\* non-empty location whose normal form (lowercased, every character other than
\* a-z, 0-9 and whitespace removed, then trimmed) contains the normal form of
\* the destination, or contains the non-empty normal form of the location of
\* some event of the itinerary, approved or not.
C10_DestinationCheck ==
    DestinationChecked =>
        /\ ~chk.out.thrown
        /\ chk.out.value =
               DestinationOk(chk.suggestion, chk.destination, chk.events)
        /\ ExamplesDecided

\* "Trastevere, Rome, Italy" was checked against the destination "Rome, Italy"
\* with no event, and accepted.
C10_Witness ==
    /\ DestinationChecked
    /\ chk.destination = RomeItaly
    /\ chk.suggestion.location = <<TrastevereRomeItaly>>
    /\ chk.events = <<>>
    /\ chk.out.value

(***************************************************************************)
(* Claims about requestSuggestionFromLLM, checked under SpecLLM.           *)
(***************************************************************************)
\* The text holds no "[" with a "]" after it.
NoBracketedArray(text) ==
    ~\E i, j \in 1..Len(text) : i < j /\ text[i].t = "[" /\ text[j].t = "]"

\* The bracketed span of the text: from its first "[" to its last "]".
BracketedSpan(text) ==
    LET i == CHOOSE i \in 1..Len(text) :
                 text[i].t = "[" /\ \A k \in 1..(i - 1) : text[k].t # "["
        j == CHOOSE j \in 1..Len(text) :
                 text[j].t = "]" /\ \A k \in (j + 1)..Len(text) : text[k].t # "]"
    IN SubSeq(text, i, j)

\* The gateway call rejects, resolves to no string, to a text without a
\* bracketed array, or to one whose bracketed span is no JSON array.
FailedReply(reply) ==
    \/ reply.kind = "rejected"
    \/ reply.kind = "notString"
    \/ /\ reply.kind = "text"
       /\ \/ NoBracketedArray(reply.text)
          \/ ~JsonParse(BracketedSpan(reply.text)).ok
          \/ ~JsonParse(BracketedSpan(reply.text)).isArray

\* What the call returns to its caller when the gateway settles with reply.
SettledOutcome(reply) ==
    CatchBlock(TryBlock(reply, itineraries[call.it].events, call.destination,
                        call.remainingBudget))

\* C7: requestSuggestionFromLLM never propagates an exception: however the
\* gateway settles the call returns, and it returns the empty list when the
\* gateway rejects or its reply is no string, holds no bracketed array, or
\* holds a bracketed span that is not a JSON array.
C7_NeverPropagates ==
    /\ thrown \in {NoError, DuplicateTripError}
    /\ call.pc = "awaiting" =>
           \A reply \in Replies :
               /\ ~SettledOutcome(reply).thrown
               /\ FailedReply(reply) => SettledOutcome(reply).value = <<>>
    /\ (call.pc = "returned" /\ call.logged # "") => call.result = <<>>

\* A call returned the empty list after JSON.parse threw on the bracketed span.
C7_Witness ==
    /\ call.pc = "returned"
    /\ call.logged = SyntaxError
    /\ call.result = <<>>
    /\ thrown = NoError

(***************************************************************************)
(* SpecBudget: validateBudget applied to bounded inputs: a suggestion with *)
(* no cost or a cost of -MaxCost..MaxCost, against a remaining budget of   *)
(* -MaxCost..MaxCost. getRemainingBudget is negative when the approved     *)
(* spend exceeds the budget.                                               *)
(***************************************************************************)
MaxCost == 4

Costs == (0 - MaxCost)..MaxCost

BudgetInputs ==
    [op : {"validateBudget"},
     suggestion : {Obj(<<Str_b>>, c, <<Str_a>>) :
                      c \in {<<>>} \cup {<<n>> : n \in Costs}},
     budget : Costs,
     done : {FALSE},
     out : {Returned(FALSE)}]

InitBudget ==
    /\ itineraries = <<>>
    /\ thrown = NoError
    /\ call = NoCall
    /\ chk \in BudgetInputs

RunBudget ==
    /\ chk.op = "validateBudget"
    /\ ~chk.done
    /\ chk' = [chk EXCEPT !.done = TRUE,
                          !.out = validateBudget(chk.suggestion, chk.budget)]
    /\ UNCHANGED <<itineraries, thrown, call>>

NextBudget == RunBudget

SpecBudget == InitBudget /\ [][NextBudget]_vars

BudgetChecked == chk.op = "validateBudget" /\ chk.done

\* C11 as stated: the budget check accepts a suggestion with a cost exactly when
\* the cost is at most the remaining budget, and accepts a suggestion without a
\* cost whatever the remaining budget is.
C11_Original ==
    BudgetChecked =>
        /\ ~chk.out.thrown
        /\ Has(chk.suggestion.cost) =>
               chk.out.value = (Get(chk.suggestion.cost) <= chk.budget)
        /\ ~Has(chk.suggestion.cost) => chk.out.value

\* C11, amended: the budget check accepts a suggestion with a cost exactly when
\* the cost is at most the remaining budget, the boundary included, and accepts
\* a suggestion without a cost exactly when the remaining budget is not
\* negative.
C11_BudgetCheck ==
    BudgetChecked =>
        /\ ~chk.out.thrown
        /\ Has(chk.suggestion.cost) =>
               /\ Get(chk.suggestion.cost) = chk.budget => chk.out.value
               /\ Get(chk.suggestion.cost) > chk.budget => ~chk.out.value
               /\ Get(chk.suggestion.cost) < chk.budget => chk.out.value
        /\ ~Has(chk.suggestion.cost) => chk.out.value = (chk.budget >= 0)

\* A suggestion whose cost equals the remaining budget was checked and accepted.
C11_Witness ==
    /\ BudgetChecked
    /\ Has(chk.suggestion.cost)
    /\ Get(chk.suggestion.cost) = chk.budget
    /\ chk.budget > 0
    /\ chk.out.value

(***************************************************************************)
(* SpecDuplicate: isDuplicate applied to bounded inputs: a suggestion with *)
(* no name or a name of at most MaxNameLen characters over a lower-case    *)
(* letter, an upper-case letter, a space and a comma, against no event,    *)
(* one pending, approved or rejected event, or an approved event followed  *)
(* by a rejected one.                                                      *)
(***************************************************************************)
MaxNameLen == 2

Names == SeqsUpTo(TextAlphabet, MaxNameLen)

EventNamed(name, status) ==
    LET e == NewEvent(name, 1, Str_a, "2025-04-01", "2025-04-02")
    IN IF status = "pending" THEN e ELSE ApprovalSet(e, status = "approved")

EventNameLists ==
    {<<>>}
    \cup {<<EventNamed(n, st)>> :
              n \in Names, st \in {"pending", "approved", "rejected"}}
    \cup {<<EventNamed(Str_b, "approved"), EventNamed(n, "rejected")>> :
              n \in Names}

DuplicateInputs ==
    [op : {"isDuplicate"},
     events : EventNameLists,
     suggestion : {Obj(n, <<1>>, <<Str_a>>) :
                      n \in {<<>>} \cup {<<t>> : t \in Names}},
     done : {FALSE},
     out : {Returned(FALSE)}]

InitDuplicate ==
    /\ itineraries = <<>>
    /\ thrown = NoError
    /\ call = NoCall
    /\ chk \in DuplicateInputs

RunDuplicate ==
    /\ chk.op = "isDuplicate"
    /\ ~chk.done
    /\ chk' = [chk EXCEPT !.done = TRUE,
                          !.out = isDuplicate(chk.events, chk.suggestion)]
    /\ UNCHANGED <<itineraries, thrown, call>>

NextDuplicate == RunDuplicate

SpecDuplicate == InitDuplicate /\ [][NextDuplicate]_vars

DuplicateChecked == chk.op = "isDuplicate" /\ chk.done

\* Two texts of the same length whose characters are pairwise the same letter,
\* in either case, or the same character.
EqualIgnoringCase(s, t) ==
    /\ Len(s) = Len(t)
    /\ \A k \in 1..Len(s) :
          \/ s[k] = t[k]
          \/ \E j \in 1..Len(UpperCase) :
                 {s[k], t[k]} = {UpperCase[j], LowerCase[j]}

\* The letters and digits of a text, lowercased.
LettersOf(text) ==
    SelectSeq(ToLowerCase(text), LAMBDA c : c \in Range(LowerCase) \cup Digits)

\* C12: the duplicate check rejects a suggestion that has a name exactly when
\* some event of the itinerary, pending, approved or rejected, has the same
\* name up to the case of its letters; a name that differs from every event's
\* name in punctuation or whitespace is not a duplicate.
C12_DuplicateCheck ==
    (DuplicateChecked /\ Has(chk.suggestion.name)) =>
        /\ ~chk.out.thrown
        /\ chk.out.value =
               \E k \in 1..Len(chk.events) :
                   EqualIgnoringCase(chk.events[k].name, Get(chk.suggestion.name))
        /\ (\A k \in 1..Len(chk.events) :
                /\ LettersOf(chk.events[k].name) =
                       LettersOf(Get(chk.suggestion.name))
                /\ Len(chk.events[k].name) # Len(Get(chk.suggestion.name)))
           => ~chk.out.value

\* A suggestion named "a" was found to duplicate the rejected second event "A".
C12_Witness ==
    /\ DuplicateChecked
    /\ chk.suggestion.name = <<Str_a>>
    /\ Len(chk.events) = 2
    /\ chk.events[2].name = Str_A
    /\ ~chk.events[2].pending /\ ~chk.events[2].approved
    /\ chk.out.value

(***************************************************************************)
(* SpecSpringBreak: the suggestion request on the trip whose destination   *)
(* is "Spring Break". The gateway answers with suggestions located at      *)
(* "Spring Break, USA" or at "b", the location of the second event input.  *)
(***************************************************************************)
SpringBreakUSA == SpringBreak \o <<",", " ", "U", "S", "A">>

HallucinatedSuggestion == Obj(<<Str_b>>, <<1>>, <<SpringBreakUSA>>)
ElsewhereSuggestion == Obj(<<Str_b>>, <<1>>, <<Str_b>>)

SpringBreakTokens ==
    {Tok("["), Tok("]"), Tok(","), Val(HallucinatedSuggestion),
     Val(ElsewhereSuggestion)}

SpringBreakReplies ==
    {[kind |-> "rejected", text |-> <<>>]}
    \cup [kind : {"text"}, text : SeqsUpTo(SpringBreakTokens, MaxReplyLen)]

SpringBreakCreateInputs == {[trip |-> SpringBreakTrip, budget |-> 3]}

SpringBreakCreate == \E x \in SpringBreakCreateInputs : Create(x.trip, x.budget)

SpringBreakSettles == \E reply \in SpringBreakReplies : GatewaySettles(reply)

NextSpringBreak ==
    \/ SpringBreakCreate
    \/ DoAddEvent
    \/ DoSetEventApproval
    \/ DoRequestSuggestion
    \/ SpringBreakSettles

SpecSpringBreak == Init /\ [][NextSpringBreak]_vars

\* The location of the suggestion contains, in normal form, the destination or
\* the location of an approved event.
Justified(suggestion, destination, events) ==
    /\ Has(suggestion.location)
    /\ \/ IsInfix(NormalForm(destination), NormalForm(Get(suggestion.location)))
       \/ \E k \in 1..Len(events) :
             /\ events[k].approved
             /\ NormalForm(events[k].location) # <<>>
             /\ IsInfix(NormalForm(events[k].location),
                        NormalForm(Get(suggestion.location)))

\* No suggestion is returned for "Spring Break" and an itinerary without events.
SpringBreakReturnsNone ==
    (/\ call.pc = "returned"
     /\ call.destination = SpringBreak
     /\ itineraries[call.it].events = <<>>)
    => call.result = <<>>

\* Every returned suggestion is justified.
OnlyJustifiedReturned ==
    call.pc = "returned" =>
        \A j \in 1..Len(call.result) :
            Justified(call.result[j], call.destination, itineraries[call.it].events)

\* C13: requestSuggestionFromLLM returns no suggestion whose location is not
\* justified by the destination or by the location of an approved event, and
\* for the destination "Spring Break" and an itinerary without events it
\* returns no suggestion at all.
C13_LocationJustified == OnlyJustifiedReturned /\ SpringBreakReturnsNone

(***************************************************************************)
(* Frame conditions of the event operations, checked under Spec.           *)
(***************************************************************************)
\* The itinerary it keeps its trip, its budget and its finalized flag.
SameHeader(it) ==
    /\ itineraries'[it].trip = itineraries[it].trip
    /\ itineraries'[it].budget = itineraries[it].budget
    /\ itineraries'[it].finalized = itineraries[it].finalized

\* Every itinerary other than it, and every event of it other than ev, is as it
\* was, and no itinerary or event is added or removed.
OthersUnchanged(it, ev) ==
    /\ Len(itineraries') = Len(itineraries)
    /\ \A i \in 1..Len(itineraries) : i # it => itineraries'[i] = itineraries[i]
    /\ Len(itineraries'[it].events) = Len(itineraries[it].events)
    /\ \A k \in 1..Len(itineraries[it].events) :
          k # ev => itineraries'[it].events[k] = itineraries[it].events[k]

\* C14: updateEvent overwrites the name, the cost, the start and the end of the
\* event and leaves its pending and approved flags, its location, every other
\* event and the finalized flag and budget of the itinerary unchanged, whether
\* the event is pending, approved or rejected.
C14_UpdateEventFrame ==
    [][\A it \in ItinIds, ev \in EventIds, x \in UpdateInputs :
          UpdateEvent(it, ev, x.name, x.cost, x.start, x.end) =>
              /\ itineraries'[it].events[ev].name = x.name
              /\ itineraries'[it].events[ev].cost = x.cost
              /\ itineraries'[it].events[ev].start = x.start
              /\ itineraries'[it].events[ev].end = x.end
              /\ itineraries'[it].events[ev].pending =
                     itineraries[it].events[ev].pending
              /\ itineraries'[it].events[ev].approved =
                     itineraries[it].events[ev].approved
              /\ itineraries'[it].events[ev].location =
                     itineraries[it].events[ev].location
              /\ SameHeader(it)
              /\ OthersUnchanged(it, ev)
              /\ thrown' = NoError]_vars

\* An approved event and a rejected event of a finalized itinerary were edited:
\* each carries the location it was added with and the name and cost of the
\* other input.
C14_Witness ==
    \E i \in 1..Len(itineraries) :
        /\ itineraries[i].finalized
        /\ \E k, j \in 1..Len(itineraries[i].events) :
              /\ itineraries[i].events[k].approved
              /\ itineraries[i].events[k].location = Str_a
              /\ itineraries[i].events[k].name = Str_A
              /\ itineraries[i].events[k].cost = 2
              /\ ~itineraries[i].events[j].approved
              /\ ~itineraries[i].events[j].pending
              /\ itineraries[i].events[j].location = Str_b
              /\ itineraries[i].events[j].name = Str_a

\* C15: finalizeItinerary(itinerary, f) succeeds on every registered itinerary,
\* for f true and for f false and with events still pending, sets the finalized
\* flag to f and changes nothing else: the events, their order, the budget and
\* the other itineraries are as they were.
C15_FinalizeFrame ==
    /\ [](\A it \in 1..Len(itineraries), f \in BOOLEAN :
             ENABLED FinalizeItinerary(it, f))
    /\ [][\A it \in ItinIds, f \in BOOLEAN :
             FinalizeItinerary(it, f) =>
                 /\ itineraries'[it].finalized = f
                 /\ itineraries'[it].events = itineraries[it].events
                 /\ itineraries'[it].budget = itineraries[it].budget
                 /\ itineraries'[it].trip = itineraries[it].trip
                 /\ Len(itineraries') = Len(itineraries)
                 /\ \A i \in 1..Len(itineraries) :
                        i # it => itineraries'[i] = itineraries[i]
                 /\ thrown' = NoError]_vars

\* An itinerary is finalized while one of its events is pending and another is
\* decided, and the other itinerary, which holds no event, is not finalized.
C15_Witness ==
    \E i, j \in 1..Len(itineraries) :
        /\ itineraries[i].finalized
        /\ Len(itineraries[i].events) = 2
        /\ itineraries[i].events[1].pending
        /\ itineraries[i].events[2].approved
        /\ ~itineraries[j].finalized

(***************************************************************************)
(* SpecFull: every operation of PlanItinerary on one itinerary, with the   *)
(* suggestion request and a gateway that rejects or answers one of a few   *)
(* texts: an array of one or two suggestions, alone or followed by more    *)
(* text, an array holding null, and prose.                                 *)
(***************************************************************************)
\* A suggestion named "b" located at "b", the location of the second event input.
OtherSuggestion == Obj(<<Str_b>>, <<1>>, <<Str_b>>)

FullTexts ==
    {<<Tok("["), Val(LocalSuggestion), Tok("]")>>,
     <<Tok("["), Val(OtherSuggestion), Tok("]")>>,
     <<Tok("["), Val(LocalSuggestion), Tok(","), Val(OtherSuggestion), Tok("]")>>,
     <<Tok("["), Val(Null), Tok("]")>>,
     <<Tok("prose")>>}

FullReplies ==
    {[kind |-> "rejected", text |-> <<>>]} \cup [kind : {"text"}, text : FullTexts]

FullSettles == \E reply \in FullReplies : GatewaySettles(reply)

\* An edit gives an event the name, the cost and the times of the second event
\* input: an event added at "a" for -1 becomes an event at "a" that costs 2.
FullUpdateInputs == {x \in UpdateInputs : x.cost > 0}

FullUpdateEvent ==
    \E it \in 1..MaxItins, ev \in 1..MaxEvents, x \in FullUpdateInputs :
        UpdateEvent(it, ev, x.name, x.cost, x.start, x.end)

NextFull ==
    \/ LLMCreate
    \/ DoAddEvent
    \/ FullUpdateEvent
    \/ DoSetEventApproval
    \/ DoFinalizeItinerary
    \/ DoRequestSuggestion
    \/ FullSettles

SpecFull == Init /\ [][NextFull]_vars

(***************************************************************************)
(* Claims about all the operations together, checked under SpecFull.       *)
(***************************************************************************)
Rejected(event) == ~event.pending /\ ~event.approved

\* Every itinerary is still registered, and each of its events is still in its
\* place, at the location it was added with; at most one event was appended.
EventsOnlyAppended ==
    /\ Len(itineraries') >= Len(itineraries)
    /\ \A it \in 1..Len(itineraries) :
          /\ Len(itineraries'[it].events) \in
                 {Len(itineraries[it].events), Len(itineraries[it].events) + 1}
          /\ \A k \in 1..Len(itineraries[it].events) :
                 itineraries'[it].events[k].location =
                     itineraries[it].events[k].location

RejectionKeepsEvent ==
    \A it \in ItinIds, ev \in EventIds :
        SetEventApproval(it, ev, FALSE) =>
            /\ Len(itineraries'[it].events) = Len(itineraries[it].events)
            /\ Rejected(itineraries'[it].events[ev])

\* When the gateway settles and the call returns, no suggestion it returns has
\* the name, up to case, of a rejected event of the itinerary.
RejectedStillCompared ==
    (call.pc = "awaiting" /\ call'.pc = "returned") =>
        \A j \in 1..Len(call'.result) :
            \A k \in 1..Len(itineraries[call.it].events) :
                Rejected(itineraries[call.it].events[k]) =>
                    ~EqualIgnoringCase(itineraries[call.it].events[k].name,
                                       Get(call'.result[j].name))

\* C16: no operation removes an event: the events of an itinerary only grow by
\* appends, an event rejected with setEventApproval(e, false) stays in the
\* collection with approved = false and pending = false, and it still takes
\* part in the duplicate check of later suggestion requests.
C16_NoEventRemoved ==
    [][EventsOnlyAppended /\ RejectionKeepsEvent /\ RejectedStillCompared]_vars

\* A request returned the suggestion named "b" for an itinerary that holds a
\* rejected event named "A" followed by another event.
C16_Witness ==
    /\ call.pc = "returned"
    /\ call.result = <<OtherSuggestion>>
    /\ Len(itineraries[call.it].events) = 2
    /\ Rejected(itineraries[call.it].events[1])
    /\ itineraries[call.it].events[1].name = Str_A

\* C17: requestSuggestionFromLLM does not change the plan: in the step that
\* starts the call and in the step in which it returns, whether the gateway
\* rejected, answered a malformed text or answered suggestions, the registered
\* itineraries, their budgets and finalized flags and their events with their
\* flags are unchanged; no suggestion becomes an event.
C17_RequestDoesNotMutate ==
    [][call' # call =>
          /\ Len(itineraries') = Len(itineraries)
          /\ \A it \in 1..Len(itineraries) :
                 /\ itineraries'[it].events = itineraries[it].events
                 /\ itineraries'[it].finalized = itineraries[it].finalized
                 /\ itineraries'[it].budget = itineraries[it].budget
                 /\ itineraries'[it].trip = itineraries[it].trip]_vars

\* A request returned the suggestion named "b", and the single event of the
\* itinerary, still pending, is not that suggestion.
C17_Witness ==
    /\ call.pc = "returned"
    /\ call.result = <<OtherSuggestion>>
    /\ call.logged = ""
    /\ Len(itineraries[call.it].events) = 1
    /\ itineraries[call.it].events[1].pending
    /\ itineraries[call.it].events[1].name # Str_b

\* The store after setEventApproval(e, approved) on the event at p.
AfterApproval(store, p, approved) ==
    [store EXCEPT ![p[1]].events[p[2]] = ApprovalSet(@, approved)]

\* C18: setEventApproval is idempotent: from every state and for every event,
\* approving the event twice in a row leaves the store, the itinerary and the
\* event exactly as approving it once does.
C18_ApprovalIdempotent ==
    \A p \in AllEvents :
        AfterApproval(AfterApproval(itineraries, p, TRUE), p, TRUE) =
            AfterApproval(itineraries, p, TRUE)

\* Both events of an itinerary are approved: the second was approved while the
\* first already was.
C18_Witness ==
    \E i \in 1..Len(itineraries) :
        /\ Len(itineraries[i].events) = 2
        /\ itineraries[i].events[1].approved
        /\ itineraries[i].events[2].approved
        /\ thrown = NoError

\* C19: setEventApproval is the only operation that clears pending: the pending
\* flag of an event goes from true to false only in a setEventApproval step on
\* that event, and once it is false no addEvent, updateEvent, setEventApproval,
\* finalizeItinerary or requestSuggestionFromLLM step sets it back to true.
C19_OnlyApprovalClearsPending ==
    [][\A p \in AllEvents :
          /\ (EventAt(p).pending /\ ~itineraries'[p[1]].events[p[2]].pending)
             => \E a \in BOOLEAN : SetEventApproval(p[1], p[2], a)
          /\ ~EventAt(p).pending => ~itineraries'[p[1]].events[p[2]].pending]_vars

\* A decided event was edited, its itinerary was finalized, a further event was
\* added and a suggestion request returned: the event is still decided.
C19_Witness ==
    /\ call.pc = "returned"
    /\ itineraries[call.it].finalized
    /\ Len(itineraries[call.it].events) = 2
    /\ ~itineraries[call.it].events[1].pending
    /\ itineraries[call.it].events[1].location = Str_a
    /\ itineraries[call.it].events[1].name = Str_A
    /\ itineraries[call.it].events[2].pending

(***************************************************************************)
(* SpecReply: the try and catch blocks of requestSuggestionFromLLM applied *)
(* to every reply text of at most MaxParseLen tokens, for an itinerary     *)
(* without events whose destination is "a" and whose remaining budget is   *)
(* 2.                                                                      *)
(***************************************************************************)
MaxParseLen == 4

ReplyInputs ==
    [op : {"reply"},
     reply : [kind : {"text"}, text : SeqsUpTo(ReplyTokens, MaxParseLen)],
     events : {<<>>},
     destination : {Str_a},
     budget : {2},
     done : {FALSE},
     out : {Returned(<<>>)}]

InitReply ==
    /\ itineraries = <<>>
    /\ thrown = NoError
    /\ call = NoCall
    /\ chk \in ReplyInputs

RunReply ==
    /\ chk.op = "reply"
    /\ ~chk.done
    /\ chk' = [chk EXCEPT !.done = TRUE,
                          !.out = CatchBlock(TryBlock(chk.reply, chk.events,
                                                      chk.destination, chk.budget))]
    /\ UNCHANGED <<itineraries, thrown, call>>

NextReply == RunReply

SpecReply == InitReply /\ [][NextReply]_vars

ReplyProcessed == chk.op = "reply" /\ chk.done

\* The number of "[" minus the number of "]" among the tokens i..k of the text.
Depth(text, i, k) ==
    Cardinality({n \in i..k : text[n].t = "["}) -
        Cardinality({n \in i..k : text[n].t = "]"})

FirstOpen(text) == CHOOSE i \in 1..Len(text) :
                       text[i].t = "[" /\ \A n \in 1..(i - 1) : text[n].t # "["

\* The bracket that closes the first "[" of the text, when there is one.
HasFirstBalanced(text) ==
    /\ \E i \in 1..Len(text) : text[i].t = "["
    /\ \E k \in FirstOpen(text)..Len(text) : Depth(text, FirstOpen(text), k) = 0

FirstClose(text) ==
    CHOOSE k \in FirstOpen(text)..Len(text) :
        /\ Depth(text, FirstOpen(text), k) = 0
        /\ \A n \in FirstOpen(text)..(k - 1) : Depth(text, FirstOpen(text), n) # 0

\* The reply holds a well-formed JSON array as its first balanced bracketed span.
FirstArrayWellFormed(text) ==
    /\ HasFirstBalanced(text)
    /\ JsonParse(SubSeq(text, FirstOpen(text), FirstClose(text))).ok
    /\ JsonParse(SubSeq(text, FirstOpen(text), FirstClose(text))).isArray

\* C20: when the reply holds a well-formed JSON array as its first balanced
\* bracketed span, that array is what is parsed and validated: the call returns
\* what it returns for the reply cut after that array, whatever text follows.
C20_FirstArrayParsed ==
    (ReplyProcessed /\ FirstArrayWellFormed(chk.reply.text)) =>
        chk.out.value =
            CatchBlock(TryBlock([chk.reply EXCEPT
                                    !.text = SubSeq(@, 1, FirstClose(@))],
                                chk.events, chk.destination, chk.budget)).value

\* C20 for a reply whose text after the first array holds no "]".
TailWithoutBracket ==
    (/\ ReplyProcessed
     /\ FirstArrayWellFormed(chk.reply.text)
     /\ \A n \in (FirstClose(chk.reply.text) + 1)..Len(chk.reply.text) :
            chk.reply.text[n].t # "]")
    => chk.out.value =
           CatchBlock(TryBlock([chk.reply EXCEPT
                                   !.text = SubSeq(@, 1, FirstClose(@))],
                               chk.events, chk.destination, chk.budget)).value

(***************************************************************************)
(* SpecHeap: the store with Event objects as objects. chk.events is the    *)
(* heap of the Event objects created so far, an Event's reference being    *)
(* its index; the events array of an itinerary holds references. addEvent  *)
(* creates an object and pushes its reference; updateEvent and             *)
(* setEventApproval write the fields of the object they are given.         *)
(***************************************************************************)
NoHeap == [op |-> "heap", events |-> <<>>]

InitHeap ==
    /\ itineraries = <<>>
    /\ thrown = NoError
    /\ call = NoCall
    /\ chk = NoHeap

EventRefs == 1..Len(chk.events)

\* Mutant: the new event is pushed on the events array of every itinerary.
HeapAddEvent_shared(name, cost, location, it, start, end) ==
    /\ it \in 1..Len(itineraries)
    /\ TotalEvents < MaxEvents
    /\ chk' = [chk EXCEPT !.events =
                  Append(@, NewEvent(name, cost, location, start, end))]
    /\ itineraries' = [i \in 1..Len(itineraries) |->
                          [itineraries[i] EXCEPT !.events =
                              Append(@, Len(chk.events) + 1)]]
    /\ thrown' = NoError
    /\ UNCHANGED call

\* const event = {...}; itinerary.events.push(event); return event
HeapAddEvent(name, cost, location, it, start, end) ==
    /\ it \in 1..Len(itineraries)
    /\ TotalEvents < MaxEvents
    /\ chk' = [chk EXCEPT !.events =
                  Append(@, NewEvent(name, cost, location, start, end))]
    /\ itineraries' = [itineraries EXCEPT ![it].events =
                          Append(@, Len(chk.events) + 1)]
    /\ thrown' = NoError
    /\ UNCHANGED call

HeapUpdateEvent(event, name, cost, start, end) ==
    /\ event \in EventRefs
    /\ chk' = [chk EXCEPT !.events[event] = UpdatedEvent(@, name, cost, start, end)]
    /\ thrown' = NoError
    /\ UNCHANGED <<itineraries, call>>

HeapSetEventApproval(event, approved) ==
    /\ event \in EventRefs
    /\ chk' = [chk EXCEPT !.events[event] = ApprovalSet(@, approved)]
    /\ thrown' = NoError
    /\ UNCHANGED <<itineraries, call>>

\* The itinerary with the objects its events array refers to.
Deref(itinerary, heap) ==
    [itinerary EXCEPT !.events = [k \in 1..Len(@) |-> heap[@[k]]]]

DoHeapAddEvent ==
    \E it \in 1..MaxItins, x \in EventInputs :
        HeapAddEvent(x.name, x.cost, x.location, it, x.start, x.end)

DoHeapUpdateEvent ==
    \E event \in 1..MaxEvents, x \in FullUpdateInputs :
        HeapUpdateEvent(event, x.name, x.cost, x.start, x.end)

DoHeapSetEventApproval ==
    \E event \in 1..MaxEvents, a \in BOOLEAN : HeapSetEventApproval(event, a)

NextHeap ==
    \/ DoCreate
    \/ DoHeapAddEvent
    \/ DoHeapUpdateEvent
    \/ DoHeapSetEventApproval
    \/ DoFinalizeItinerary

SpecHeap == InitHeap /\ [][NextHeap]_vars

\* The places of the events arrays that hold the reference e.
PlacesOf(e) ==
    {p \in ItinIds \X EventIds :
        /\ p[1] <= Len(itineraries)
        /\ p[2] <= Len(itineraries[p[1]].events)
        /\ itineraries[p[1]].events[p[2]] = e}

EachEventInOneItinerary == \A e \in EventRefs : Cardinality(PlacesOf(e)) = 1

\* The step is addEvent or finalizeItinerary on the itinerary it, or
\* updateEvent or setEventApproval on an event of its events array.
OperationOn(it) ==
    /\ it \in 1..Len(itineraries)
    /\ \/ \E x \in EventInputs :
              HeapAddEvent(x.name, x.cost, x.location, it, x.start, x.end)
       \/ \E f \in BOOLEAN : FinalizeItinerary(it, f)
       \/ \E k \in 1..Len(itineraries[it].events), x \in FullUpdateInputs :
              HeapUpdateEvent(itineraries[it].events[k], x.name, x.cost,
                              x.start, x.end)
       \/ \E k \in 1..Len(itineraries[it].events), a \in BOOLEAN :
              HeapSetEventApproval(itineraries[it].events[k], a)

\* The itinerary other keeps its events with their fields and flags, their
\* order, its budget, its finalized flag and its remaining budget.
Untouched(other) ==
    /\ Deref(itineraries[other], chk.events)' =
           Deref(itineraries[other], chk.events)
    /\ getRemainingBudget(Deref(itineraries[other], chk.events))' =
           getRemainingBudget(Deref(itineraries[other], chk.events))

\* C21: addEvent, updateEvent, setEventApproval and finalizeItinerary applied
\* to an itinerary or to one of its events leave the events, the flags, the
\* budget and the remaining budget of every other registered itinerary
\* unchanged, and in every reachable state every event is in the events array
\* of exactly one itinerary, once.
C21_ItinerariesIndependent ==
    /\ []EachEventInOneItinerary
    /\ [][\A other \in 1..Len(itineraries) :
             \/ Untouched(other)
             \/ \A it \in ItinIds \ {other} : ~OperationOn(it)]_vars

\* Two itineraries hold one event each: the first is finalized and its event,
\* created second, is approved and costs 2; the event of the other itinerary is
\* pending and that itinerary is not finalized.
C21_Witness ==
    /\ Len(itineraries) = 2
    /\ itineraries[1].finalized /\ ~itineraries[2].finalized
    /\ itineraries[1].events = <<2>>
    /\ itineraries[2].events = <<1>>
    /\ chk.events[2].approved /\ chk.events[2].cost = 2
    /\ chk.events[1].pending
    /\ getRemainingBudget(Deref(itineraries[1], chk.events)) <
           itineraries[1].budget

(***************************************************************************)
(* SpecLive: SpecFull with a gateway that settles every call: the promise  *)
(* of llm.executeLLM resolves or rejects.                                  *)
(***************************************************************************)
SpecLive == SpecFull /\ WF_vars(FullSettles)

\* The planner accepts every operation: create, and on every registered
\* itinerary and every event addEvent, updateEvent, setEventApproval and
\* finalizeItinerary.
AcceptsOperations ==
    /\ \A x \in LLMCreateInputs : ENABLED Create(x.trip, x.budget)
    /\ \A it \in 1..Len(itineraries) :
          /\ \A f \in BOOLEAN : ENABLED FinalizeItinerary(it, f)
          /\ TotalEvents < MaxEvents =>
                 \A x \in EventInputs :
                     ENABLED AddEvent(x.name, x.cost, x.location, it, x.start, x.end)
          /\ \A ev \in 1..Len(itineraries[it].events) :
                 /\ \A a \in BOOLEAN : ENABLED SetEventApproval(it, ev, a)
                 /\ \A x \in FullUpdateInputs :
                        ENABLED UpdateEvent(it, ev, x.name, x.cost, x.start, x.end)

\* An outstanding call changes only by returning, for the itinerary it was
\* made for, and a returned call keeps its result until the next call.
CompletesOnce ==
    /\ (call.pc = "awaiting" /\ call' # call) =>
           /\ call'.pc = "returned"
           /\ call'.it = call.it
    /\ (call.pc = "returned" /\ call'.pc = "returned") => call' = call

\* C22: with a gateway that settles every call, every requestSuggestionFromLLM
\* call eventually returns, once, a list of suggestions, possibly empty, and
\* after it returned, also when the request failed, the planner accepts create,
\* addEvent, updateEvent, setEventApproval and finalizeItinerary.
C22_RequestCompletes ==
    /\ (call.pc = "awaiting") ~> (call.pc = "returned")
    /\ [][CompletesOnce]_vars
    /\ [](call.pc = "returned" =>
             /\ \A j \in 1..Len(call.result) : call.result[j].kind = "object"
             /\ thrown \in {NoError, DuplicateTripError}
             /\ AcceptsOperations)

\* A call returned the empty list after the gateway call was rejected; the
\* itinerary is finalized and holds a pending event.
C22_Witness ==
    /\ call.pc = "returned"
    /\ call.logged = GatewayError
    /\ call.result = <<>>
    /\ itineraries[call.it].finalized
    /\ \E k \in 1..Len(itineraries[call.it].events) :
          itineraries[call.it].events[k].pending

\* The call reads the remaining budget when it is invoked and keeps it, whatever
\* the other operations do, until the gateway settles.
BudgetReadAtInvocation ==
    /\ \A it \in ItinIds :
          RequestSuggestionFromLLM(it) =>
              /\ call'.it = it
              /\ call'.remainingBudget = getRemainingBudget(itineraries[it])
    /\ (call.pc = "awaiting" /\ call'.pc = "awaiting") => call' = call

\* When the call returns, every suggestion it returns costs at most the
\* remaining budget read at invocation, and passes the destination and the
\* duplicate checks against the events the itinerary holds at that moment.
ReturnedAgainstCurrentEvents ==
    (call.pc = "awaiting" /\ call'.pc = "returned") =>
        \A j \in 1..Len(call'.result) :
            /\ BudgetOk(call'.result[j], call.remainingBudget)
            /\ DestinationOk(call'.result[j],
                             TripFields(itineraries[call.it].trip).destination,
                             itineraries[call.it].events)
            /\ ~DuplicateOf(call'.result[j], itineraries[call.it].events)

\* C23: under any interleaving of the operations with an outstanding gateway
\* call, the budget check uses the remaining budget computed when the call was
\* invoked, and the destination and duplicate checks use the events of the
\* itinerary as they are when the reply is processed: a returned suggestion
\* costs at most the remaining budget at invocation and has the name of no
\* event present when the reply arrives.
C23_SnapshotSemantics ==
    [][BudgetReadAtInvocation /\ ReturnedAgainstCurrentEvents]_vars

\* A call invoked with a remaining budget of 1 returned the suggestion that
\* costs 1, located at the place of the only event, which costs 2 and is
\* approved: the remaining budget is now -1.
C23_Witness ==
    /\ call.pc = "returned"
    /\ call.remainingBudget = 1
    /\ call.result = <<OtherSuggestion>>
    /\ Len(itineraries[call.it].events) = 1
    /\ itineraries[call.it].events[1].approved
    /\ getRemainingBudget(itineraries[call.it]) = -1

====
